---- MODULE Spec2Model ----
(***************************************************************************)
(* Model of the testimonial carousel controller of src/main.js             *)
(* (initLineRevealTestimonials): slide index, animation flag, autoplay     *)
(* delayed call, viewport visibility, button and keyboard input.           *)
(*                                                                         *)
(* The animation library is modelled by what the controller observes of   *)
(* it: the set of live delayed calls (each with its remaining time and its *)
(* paused flag) and the sequence of timelines whose onComplete has not yet *)
(* run.  Time is discrete; a timeline completes at an arbitrary later step.*)
(***************************************************************************)
EXTENDS Integers, Sequences, FiniteSets, TLC

VARIABLES
    slideCount,       \* items.length
    slideActive,      \* per slide: carries the "is--active" class
    activeIndex,
    isAnimating,
    reduceMotion,
    autoplayEnabled,
    autoplayDuration, \* in time units
    autoplayCall,     \* id of the delayed call held by the controller, or NoCall
    isInView,
    btnNext,          \* a [data-next] element exists
    btnPrev,          \* a [data-prev] element exists
    listening,        \* keydown / click / ScrollTrigger listeners are registered
    splitInvoked,     \* slides whose text SplitText.create has been called on
    linesPositioned,  \* slides whose lines onSplit has put in place
    delayedCalls,     \* the animation library's live delayed calls
    timelines,        \* the animation library's timelines not yet completed
    scrollPos,        \* position of the scroll relative to the trigger region
    lastEvent,        \* the handler that ran last, and what it did
    startIndex,       \* activeIndex at the start of a run of next() calls
    nextCalls,        \* number of next() calls made in that run
    visited,          \* the activeIndex reached after each of them
    durationAttr,     \* the data-autoplay-duration attribute being read
    periodMs,         \* the autoplay period computed from it, in ms
    tabs,             \* the tab system of one [data-tabs="wrapper"]
    gsapWait          \* waitForGsap: its polling of the three libraries

vars == <<slideCount, slideActive, activeIndex, isAnimating, reduceMotion,
          autoplayEnabled, autoplayDuration, autoplayCall, isInView, btnNext,
          btnPrev, listening, splitInvoked, linesPositioned, delayedCalls,
          timelines, scrollPos, lastEvent, startIndex, nextCalls, visited,
          durationAttr, periodMs, tabs, gsapWait>>

config == <<slideCount, autoplayEnabled, autoplayDuration, btnNext, btnPrev,
            listening, splitInvoked, linesPositioned>>

cycleVars == <<startIndex, nextCalls, visited>>

\* The state of the page outside the carousel.
pageVars == <<durationAttr, periodMs, tabs, gsapWait>>

\* The state of the carousel.
carouselVars == <<slideCount, slideActive, activeIndex, isAnimating,
                  reduceMotion, autoplayEnabled, autoplayDuration,
                  autoplayCall, isInView, btnNext, btnPrev, listening,
                  splitInvoked, linesPositioned, delayedCalls, timelines,
                  scrollPos, lastEvent, startIndex, nextCalls, visited>>

\* Bounds of the model.
MaxSlides == 4
MaxDuration == 2

\* autoplayCall = null
NoCall == 0

\* The slide indices of a carousel of n slides.
Slides(n) == 0 .. (n - 1)

\* JavaScript's % operator: the result takes the sign of the dividend.
JsMod(a, b) == IF a >= 0 THEN a % b ELSE 0 - ((0 - a) % b)

\* FindActive that takes the last marked slide instead of the first.
FindActiveLast(n, marked) ==
    IF marked = {} THEN 0
    ELSE CHOOSE i \in marked : \A j \in marked : i >= j

\* FindActive without the default: findIndex's -1 is kept.
FindActiveNoClamp(n, marked) ==
    IF marked = {} THEN 0 - 1
    ELSE CHOOSE i \in marked : \A j \in marked : i <= j

\* items.findIndex(el => el.classList.contains("is--active")), then the
\* default: -1 becomes 0.
FindActive(n, marked) ==
    IF marked = {} THEN 0
    ELSE CHOOSE i \in marked : \A j \in marked : i <= j

\* HasItems without the early return on an empty item list.
HasItemsAlways(n) == TRUE

\* The early returns of the initialisation: nothing is set up without items.
HasItems(n) == n # 0

\* setSlideState that adds the class whatever isActive is.
SetSlideStateAlwaysOn(f, slideIndex, active) == [f EXCEPT ![slideIndex] = TRUE]

\* setSlideState(slideIndex, isActive) applied to the marker function f.
SetSlideState(f, slideIndex, active) == [f EXCEPT ![slideIndex] = active]

\* NextIndex without the wraparound.
NextIndexNoWrap(i, n) == i + 1

\* (activeIndex + 1) % slides.length
NextIndex(i, n) == JsMod(i + 1, n)

\* PrevIndex without the + slides.length offset.
PrevIndexNoOffset(i, n) == JsMod(i - 1, n)

\* (activeIndex - 1 + slides.length) % slides.length
PrevIndex(i, n) == JsMod(i - 1 + n, n)

\* markup is the set of slides marked active in the page, known to the
\* initialisation only.
Event(op, target, accepted, prevented) ==
    [op |-> op, target |-> target, accepted |-> accepted,
     defaultPrevented |-> prevented, markup |-> {}]

----------------------------------------------------------------------------
\* The delayed calls of the animation library.

\* call.kill()
Kill(live, id) == {c \in live : c.id # id}

\* The identity of a newly created delayed call.
FreshId(live) ==
    CHOOSE i \in 1 .. (Cardinality(live) + 1) :
        /\ \A c \in live : c.id # i
        /\ \A j \in 1 .. (i - 1) : \E c \in live : c.id = j

\* gsap.delayedCall(autoplayDuration / 1000, ...)
\* ran counts the time the call has spent running since it was created.
NewCall(id) ==
    [id |-> id, remaining |-> autoplayDuration, paused |-> FALSE, ran |-> 0]

\* startAutoplay without the kill of the previous call.
StartAutoplayNoKill(live) ==
    IF ~autoplayEnabled
    THEN /\ delayedCalls' = live
         /\ UNCHANGED autoplayCall
    ELSE LET id == FreshId(live)
         IN /\ delayedCalls' = live \cup {NewCall(id)}
            /\ autoplayCall' = id

\* startAutoplay without the autoplayEnabled test.
StartAutoplayAlways(live) ==
    LET killed == IF autoplayCall # NoCall THEN Kill(live, autoplayCall)
                  ELSE live
        id == FreshId(killed)
    IN /\ delayedCalls' = killed \cup {NewCall(id)}
       /\ autoplayCall' = id

\* startAutoplay(), where live is the library's live calls at the call.
StartAutoplay(live) ==
    IF ~autoplayEnabled
    THEN /\ delayedCalls' = live
         /\ UNCHANGED autoplayCall
    ELSE LET killed == IF autoplayCall # NoCall THEN Kill(live, autoplayCall)
                       ELSE live
             id == FreshId(killed)
         IN /\ delayedCalls' = killed \cup {NewCall(id)}
            /\ autoplayCall' = id

\* resetAutoplay that leaves the pending call alone.
ResetAutoplayNoop == UNCHANGED <<delayedCalls, autoplayCall>>

\* resetAutoplay()
ResetAutoplay == StartAutoplay(delayedCalls)

\* pauseAutoplay()
PauseAutoplay ==
    /\ delayedCalls' = {IF c.id = autoplayCall THEN [c EXCEPT !.paused = TRUE]
                        ELSE c : c \in delayedCalls}
    /\ UNCHANGED autoplayCall

\* resumeAutoplay that starts a new call instead of resuming.
ResumeAutoplayRestarts ==
    IF ~autoplayEnabled
    THEN UNCHANGED <<delayedCalls, autoplayCall>>
    ELSE StartAutoplay(delayedCalls)

\* resumeAutoplay()
ResumeAutoplay ==
    IF ~autoplayEnabled
    THEN UNCHANGED <<delayedCalls, autoplayCall>>
    ELSE IF autoplayCall = NoCall
    THEN StartAutoplay(delayedCalls)
    ELSE /\ delayedCalls' = {IF c.id = autoplayCall
                             THEN [c EXCEPT !.paused = FALSE]
                             ELSE c : c \in delayedCalls}
         /\ UNCHANGED autoplayCall

----------------------------------------------------------------------------
\* The timeline goTo creates.
Timeline(from, to) ==
    [outgoing |-> from, incoming |-> to, fade |-> reduceMotion]

\* goTo that does not test isAnimating.
GoToIgnoresFlag(nextIndex) ==
    IF nextIndex = activeIndex
    THEN UNCHANGED <<isAnimating, timelines>>
    ELSE /\ isAnimating' = TRUE
         /\ timelines' = Append(timelines, Timeline(activeIndex, nextIndex))

\* goTo that does not raise isAnimating.
GoToNoFlag(nextIndex) ==
    IF isAnimating \/ nextIndex = activeIndex
    THEN UNCHANGED <<isAnimating, timelines>>
    ELSE /\ UNCHANGED isAnimating
         /\ timelines' = Append(timelines, Timeline(activeIndex, nextIndex))

\* goTo that does not test nextIndex === activeIndex.
GoToAllowsSelf(nextIndex) ==
    IF isAnimating
    THEN UNCHANGED <<isAnimating, timelines>>
    ELSE /\ isAnimating' = TRUE
         /\ timelines' = Append(timelines, Timeline(activeIndex, nextIndex))

\* goTo whose reduced-motion branch returns before building its timeline.
GoToFadeNoTimeline(nextIndex) ==
    IF isAnimating \/ nextIndex = activeIndex
    THEN UNCHANGED <<isAnimating, timelines>>
    ELSE /\ isAnimating' = TRUE
         /\ timelines' = IF reduceMotion THEN timelines
                         ELSE Append(timelines, Timeline(activeIndex, nextIndex))

\* goTo(nextIndex): the synchronous part.
GoTo(nextIndex) ==
    IF isAnimating \/ nextIndex = activeIndex
    THEN UNCHANGED <<isAnimating, timelines>>
    ELSE /\ isAnimating' = TRUE
         /\ timelines' = Append(timelines, Timeline(activeIndex, nextIndex))

----------------------------------------------------------------------------
\* getAttribute() of an attribute the element does not carry: null.
Missing == [present |-> FALSE, value |-> << >>]

\* The three libraries waitForGsap polls for.
Libraries == {"gsap", "ScrollTrigger", "SplitText"}

\* The number of further checks waitForGsap allows itself, and their spacing.
DefaultTries == 80
PollMs == 50

\* No tab, no progress tween: the initial null of activeContent,
\* activeVisual and progressBarTween.
NoTab == 0 - 1
NoTween == 0

\* A wrapper the tab system returns from at once: it has no content item.
\* count is contentItems.length, bars the tabs that hold a progress bar
\* element, tweens the library's live progress tweens, timelines its tab
\* timelines not yet completed, classActive the tabs whose content and
\* visual carry the "active" class, last and target the handler that ran
\* last and the tab it asked for.
NoTabs == [count |-> 0, autoplay |-> FALSE, bars |-> {},
           activeContent |-> NoTab, activeVisual |-> NoTab,
           isAnimating |-> FALSE, progressBarTween |-> NoTween,
           tweens |-> {}, timelines |-> << >>, classActive |-> {},
           last |-> "none", target |-> NoTab]

\* waitForGsap once its first check has found the libraries and run the
\* callback, which is what starts the carousel.
WaitDone == [tries |-> DefaultTries, loaded |-> Libraries, checks |-> 1,
             elapsed |-> 0, callbacks |-> 1, warned |-> FALSE,
             pending |-> FALSE, seen |-> Libraries]

\* The page around a running carousel: the libraries are loaded, no tab
\* wrapper, and the duration attribute is not being read.
PageIdle ==
    /\ durationAttr = Missing
    /\ periodMs = << >>
    /\ tabs = NoTabs
    /\ gsapWait = WaitDone

----------------------------------------------------------------------------
\* The state after initLineRevealTestimonials() has run on one wrap.
CarouselInit ==
    \E n \in 0 .. MaxSlides, ae \in BOOLEAN, d \in 1 .. MaxDuration,
       rm \in BOOLEAN, bn \in BOOLEAN, bp \in BOOLEAN,
       sp \in {"before", "inside"} :
      \E marked \in SUBSET Slides(n) :
        /\ slideCount = n
        /\ activeIndex = FindActive(n, marked)
        /\ slideActive = [i \in Slides(n) |-> i = FindActive(n, marked)]
        /\ isAnimating = FALSE
        /\ isInView = TRUE
        /\ timelines = << >>
        /\ lastEvent = [Event("init", FindActive(n, marked), FALSE, FALSE)
                          EXCEPT !.markup = marked]
        /\ startIndex = FindActive(n, marked)
        /\ nextCalls = 0
        /\ visited = << >>
        /\ IF HasItems(n)
           THEN /\ autoplayEnabled = ae
                /\ autoplayDuration = d
                /\ reduceMotion = rm
                /\ btnNext = bn
                /\ btnPrev = bp
                /\ scrollPos = sp
                /\ listening = TRUE
                /\ splitInvoked = Slides(n)
                /\ linesPositioned = (IF rm THEN {} ELSE Slides(n))
                /\ autoplayCall = (IF ae THEN 1 ELSE NoCall)
                /\ delayedCalls = (IF ae THEN {NewCall(1)} ELSE {})
           ELSE /\ autoplayEnabled = FALSE
                /\ autoplayDuration = 1
                /\ reduceMotion = FALSE
                /\ btnNext = FALSE
                /\ btnPrev = FALSE
                /\ scrollPos = "before"
                /\ listening = FALSE
                /\ splitInvoked = {}
                /\ linesPositioned = {}
                /\ autoplayCall = NoCall
                /\ delayedCalls = {}

\* The carousel on a page whose libraries have loaded.
Init == CarouselInit /\ PageIdle

----------------------------------------------------------------------------
\* A navigation handler that resets the timer only when goTo will act.
NavigateResetsOnlyIfIdle(op, target, prevented) ==
    /\ IF isAnimating THEN UNCHANGED <<delayedCalls, autoplayCall>>
       ELSE ResetAutoplay
    /\ GoTo(target)
    /\ lastEvent' = Event(op, target, timelines' # timelines, prevented)
    /\ UNCHANGED <<activeIndex, slideActive, isInView, reduceMotion, scrollPos,
                   config, pageVars>>

\* The body of a navigation handler: resetAutoplay(); goTo(target).
Navigate(op, target, prevented) ==
    /\ ResetAutoplay
    /\ GoTo(target)
    /\ lastEvent' = Event(op, target, timelines' # timelines, prevented)
    /\ UNCHANGED <<activeIndex, slideActive, isInView, reduceMotion, scrollPos,
                   config, pageVars>>

\* btnNext click handler
ClickNextStep ==
    /\ listening
    /\ btnNext
    /\ Navigate("next", NextIndex(activeIndex, slideCount), FALSE)

ClickNext == ClickNextStep /\ UNCHANGED cycleVars

\* btnPrev click handler
ClickPrev ==
    /\ listening
    /\ btnPrev
    /\ Navigate("prev", PrevIndex(activeIndex, slideCount), FALSE)
    /\ UNCHANGED cycleVars

\* The keys and the event targets told apart by onKeyDown.
Keys == {"ArrowRight", "ArrowLeft", "Other"}

Targets == {"INPUT", "TEXTAREA", "contentEditable", "DIV", "null"}

\* isTypingTarget without the TEXTAREA case.
IsTypingTargetNoTextarea(t) ==
    t # "null" /\ (t = "INPUT" \/ t = "contentEditable")

\* t && (t.tagName === "INPUT" || t.tagName === "TEXTAREA" || t.isContentEditable)
IsTypingTarget(t) ==
    t # "null" /\ (t = "INPUT" \/ t = "TEXTAREA" \/ t = "contentEditable")

\* onKeyDown with the arrows swapped.
OnKeyDownSwapped(key, typing) ==
    /\ listening
    /\ IF ~isInView \/ typing
       THEN /\ lastEvent' = Event("keyIgnored", activeIndex, FALSE, FALSE)
            /\ UNCHANGED <<activeIndex, slideActive, isInView, reduceMotion,
                           scrollPos, config, pageVars, isAnimating, timelines,
                           delayedCalls, autoplayCall>>
       ELSE IF key = "ArrowLeft"
       THEN Navigate("ArrowRight", NextIndex(activeIndex, slideCount), TRUE)
       ELSE IF key = "ArrowRight"
       THEN Navigate("ArrowLeft", PrevIndex(activeIndex, slideCount), TRUE)
       ELSE /\ lastEvent' = Event("keyOther", activeIndex, FALSE, FALSE)
            /\ UNCHANGED <<activeIndex, slideActive, isInView, reduceMotion,
                           scrollPos, config, pageVars, isAnimating, timelines,
                           delayedCalls, autoplayCall>>

\* onKeyDown without the isInView test.
OnKeyDownIgnoresView(key, typing) ==
    /\ listening
    /\ IF typing
       THEN /\ lastEvent' = Event("keyIgnored", activeIndex, FALSE, FALSE)
            /\ UNCHANGED <<activeIndex, slideActive, isInView, reduceMotion,
                           scrollPos, config, pageVars, isAnimating, timelines,
                           delayedCalls, autoplayCall>>
       ELSE IF key = "ArrowRight"
       THEN Navigate("ArrowRight", NextIndex(activeIndex, slideCount), TRUE)
       ELSE IF key = "ArrowLeft"
       THEN Navigate("ArrowLeft", PrevIndex(activeIndex, slideCount), TRUE)
       ELSE /\ lastEvent' = Event("keyOther", activeIndex, FALSE, FALSE)
            /\ UNCHANGED <<activeIndex, slideActive, isInView, reduceMotion,
                           scrollPos, config, pageVars, isAnimating, timelines,
                           delayedCalls, autoplayCall>>

\* onKeyDown(e), with e.key = key and e.target a typing element or not
OnKeyDown(key, typing) ==
    /\ listening
    /\ IF ~isInView \/ typing
       THEN /\ lastEvent' = Event("keyIgnored", activeIndex, FALSE, FALSE)
            /\ UNCHANGED <<activeIndex, slideActive, isInView, reduceMotion,
                           scrollPos, config, pageVars, isAnimating, timelines,
                           delayedCalls, autoplayCall>>
       ELSE IF key = "ArrowRight"
       THEN Navigate("ArrowRight", NextIndex(activeIndex, slideCount), TRUE)
       ELSE IF key = "ArrowLeft"
       THEN Navigate("ArrowLeft", PrevIndex(activeIndex, slideCount), TRUE)
       ELSE /\ lastEvent' = Event("keyOther", activeIndex, FALSE, FALSE)
            /\ UNCHANGED <<activeIndex, slideActive, isInView, reduceMotion,
                           scrollPos, config, pageVars, isAnimating, timelines,
                           delayedCalls, autoplayCall>>

KeyDown ==
    /\ \E key \in Keys, typing \in {IsTypingTarget(t) : t \in Targets} :
           OnKeyDown(key, typing)
    /\ UNCHANGED cycleVars

\* The callback without the startAutoplay() that follows goTo.
AutoplayFireOnce ==
    \E c \in delayedCalls :
        /\ ~c.paused
        /\ c.remaining = 0
        /\ IF ~isInView \/ isAnimating
           THEN /\ StartAutoplay(delayedCalls \ {c})
                /\ UNCHANGED <<isAnimating, timelines>>
                /\ lastEvent' = Event("tickBlocked", activeIndex, FALSE, FALSE)
           ELSE /\ GoTo(NextIndex(activeIndex, slideCount))
                /\ delayedCalls' = delayedCalls \ {c}
                /\ UNCHANGED autoplayCall
                /\ lastEvent' = Event("tick", NextIndex(activeIndex, slideCount),
                                      timelines' # timelines, FALSE)
        /\ UNCHANGED <<activeIndex, slideActive, isInView, reduceMotion,
                       scrollPos, config, pageVars, cycleVars>>

\* The callback without the isInView test.
AutoplayFireIgnoresView ==
    \E c \in delayedCalls :
        /\ ~c.paused
        /\ c.remaining = 0
        /\ IF isAnimating
           THEN /\ StartAutoplay(delayedCalls \ {c})
                /\ UNCHANGED <<isAnimating, timelines>>
                /\ lastEvent' = Event("tickBlocked", activeIndex, FALSE, FALSE)
           ELSE /\ GoTo(NextIndex(activeIndex, slideCount))
                /\ StartAutoplay(delayedCalls \ {c})
                /\ lastEvent' = Event("tick", NextIndex(activeIndex, slideCount),
                                      timelines' # timelines, FALSE)
        /\ UNCHANGED <<activeIndex, slideActive, isInView, reduceMotion,
                       scrollPos, config, pageVars, cycleVars>>

\* The delayed call's callback, run by the library when the call is due.
AutoplayFire ==
    \E c \in delayedCalls :
        /\ ~c.paused
        /\ c.remaining = 0
        /\ IF ~isInView \/ isAnimating
           THEN /\ StartAutoplay(delayedCalls \ {c})
                /\ UNCHANGED <<isAnimating, timelines>>
                /\ lastEvent' = Event("tickBlocked", activeIndex, FALSE, FALSE)
           ELSE /\ GoTo(NextIndex(activeIndex, slideCount))
                /\ StartAutoplay(delayedCalls \ {c})
                /\ lastEvent' = Event("tick", NextIndex(activeIndex, slideCount),
                                      timelines' # timelines, FALSE)
        /\ UNCHANGED <<activeIndex, slideActive, isInView, reduceMotion,
                       scrollPos, config, pageVars, cycleVars>>

\* onComplete that leaves the outgoing slide marked.
OnCompleteNoDeactivate(tl) ==
    /\ slideActive' = SetSlideState(slideActive, tl.incoming, TRUE)
    /\ activeIndex' = tl.incoming
    /\ isAnimating' = FALSE

\* onComplete that does not clear isAnimating.
OnCompleteStaysBusy(tl) ==
    /\ slideActive' = SetSlideState(SetSlideState(slideActive, activeIndex, FALSE),
                                    tl.incoming, TRUE)
    /\ activeIndex' = tl.incoming
    /\ UNCHANGED isAnimating

\* The timeline's onComplete callback.
OnComplete(tl) ==
    /\ slideActive' = SetSlideState(SetSlideState(slideActive, activeIndex, FALSE),
                                    tl.incoming, TRUE)
    /\ activeIndex' = tl.incoming
    /\ isAnimating' = FALSE

\* A completion that also restarts the autoplay call.
TransitionCompleteRestarts ==
    /\ timelines # << >>
    /\ OnComplete(Head(timelines))
    /\ timelines' = Tail(timelines)
    /\ lastEvent' = Event("complete", Head(timelines).incoming, FALSE, FALSE)
    /\ StartAutoplay(delayedCalls)
    /\ UNCHANGED <<isInView, reduceMotion, scrollPos, config, pageVars>>

\* The library runs the onComplete of a timeline that has finished.
TransitionCompleteStep ==
    /\ timelines # << >>
    /\ OnComplete(Head(timelines))
    /\ timelines' = Tail(timelines)
    /\ lastEvent' = Event("complete", Head(timelines).incoming, FALSE, FALSE)
    /\ UNCHANGED <<isInView, reduceMotion, scrollPos, config, pageVars, delayedCalls,
                   autoplayCall>>

TransitionComplete == TransitionCompleteStep /\ UNCHANGED cycleVars

\* One time unit passes: every running delayed call gets closer to its due time.
\* A due call runs before time passes further.
AdvanceTime ==
    /\ \E c \in delayedCalls : ~c.paused
    /\ \A c \in delayedCalls : ~c.paused => c.remaining > 0
    /\ delayedCalls' = {IF c.paused THEN c
                        ELSE [c EXCEPT !.remaining = c.remaining - 1,
                                       !.ran = c.ran + 1]
                        : c \in delayedCalls}
    /\ lastEvent' = Event("time", activeIndex, FALSE, FALSE)
    /\ UNCHANGED <<activeIndex, slideActive, isAnimating, isInView, reduceMotion,
                   scrollPos, config, pageVars, autoplayCall, timelines, cycleVars>>

\* An onEnter that also clears isAnimating.
ViewportEnterClearsBusy(from) ==
    /\ listening
    /\ scrollPos = from
    /\ scrollPos' = "inside"
    /\ isInView' = TRUE
    /\ isAnimating' = FALSE
    /\ ResumeAutoplay
    /\ lastEvent' = Event(IF from = "after" THEN "enterBack" ELSE "enter",
                          activeIndex, FALSE, FALSE)
    /\ UNCHANGED <<activeIndex, slideActive, reduceMotion, config, pageVars, timelines,
                   cycleVars>>

\* ScrollTrigger onEnter / onEnterBack
ViewportEnter(from) ==
    /\ listening
    /\ scrollPos = from
    /\ scrollPos' = "inside"
    /\ isInView' = TRUE
    /\ ResumeAutoplay
    /\ lastEvent' = Event(IF from = "after" THEN "enterBack" ELSE "enter",
                          activeIndex, FALSE, FALSE)
    /\ UNCHANGED <<activeIndex, slideActive, isAnimating, reduceMotion, config, pageVars,
                   timelines, cycleVars>>

OnEnter == ViewportEnter("before")

OnEnterBack == ViewportEnter("after")

\* ScrollTrigger onLeave / onLeaveBack
ViewportLeave(to) ==
    /\ listening
    /\ scrollPos = "inside"
    /\ scrollPos' = to
    /\ isInView' = FALSE
    /\ PauseAutoplay
    /\ lastEvent' = Event("leave", activeIndex, FALSE, FALSE)
    /\ UNCHANGED <<activeIndex, slideActive, isAnimating, reduceMotion, config, pageVars,
                   timelines, cycleVars>>

OnLeave == ViewportLeave("after")

OnLeaveBack == ViewportLeave("before")

\* The matchMedia handler: it runs when the reduced-motion query starts to match.
OnMatchMedia ==
    /\ listening
    /\ ~reduceMotion
    /\ reduceMotion' = TRUE
    /\ lastEvent' = Event("media", activeIndex, FALSE, FALSE)
    /\ UNCHANGED <<activeIndex, slideActive, isAnimating, isInView, scrollPos,
                   config, pageVars, autoplayCall, delayedCalls, timelines, cycleVars>>

\* The page or component that owns the carousel is torn down.  The
\* initialisation keeps no handle on its listeners or its delayed call and
\* returns none, so nothing is released.
Teardown ==
    /\ listening
    /\ lastEvent' = Event("teardown", activeIndex, FALSE, FALSE)
    /\ UNCHANGED <<activeIndex, slideActive, isAnimating, isInView, reduceMotion,
                   scrollPos, config, pageVars, autoplayCall, delayedCalls, timelines,
                   cycleVars>>

Next ==
    \/ ClickNext
    \/ ClickPrev
    \/ KeyDown
    \/ AutoplayFire
    \/ TransitionComplete
    \/ AdvanceTime
    \/ OnEnter
    \/ OnEnterBack
    \/ OnLeave
    \/ OnLeaveBack
    \/ OnMatchMedia
    \/ Teardown

Spec == Init /\ [][Next]_vars

TypeOK ==
    /\ slideCount \in 0 .. MaxSlides
    /\ splitInvoked \subseteq Slides(slideCount)
    /\ linesPositioned \subseteq splitInvoked
    /\ slideActive \in [Slides(slideCount) -> BOOLEAN]
    /\ isAnimating \in BOOLEAN
    /\ isInView \in BOOLEAN
    /\ autoplayCall \in 0 .. 1
    /\ scrollPos \in {"before", "inside", "after"}
    /\ \A c \in delayedCalls : c.remaining \in 0 .. autoplayDuration

----------------------------------------------------------------------------
\* A run of next() calls, each made once the previous transition has
\* completed, with nothing else happening in between.

\* One next() call of the run, through the button or the ArrowRight key.
CycleCall(step) ==
    /\ ~isAnimating
    /\ nextCalls < slideCount
    /\ step
    /\ nextCalls' = nextCalls + 1
    /\ visited' = IF timelines' = timelines THEN Append(visited, activeIndex)
                  ELSE visited
    /\ UNCHANGED startIndex

CycleNext == CycleCall(ClickNextStep)

CycleKeyRight == CycleCall(OnKeyDown("ArrowRight", FALSE))

CycleComplete ==
    /\ TransitionCompleteStep
    /\ visited' = Append(visited, activeIndex')
    /\ UNCHANGED <<startIndex, nextCalls>>

InitCycle == Init /\ slideCount >= 1

NextCycle ==
    \/ CycleNext
    \/ CycleKeyRight
    \/ CycleComplete

SpecCycle == InitCycle /\ [][NextCycle]_vars

----------------------------------------------------------------------------
\* Autoplay alone: the carousel is in view and nobody touches it.  The
\* library's ticker keeps running, so time passes, due calls run and
\* timelines finish.

InitAuto == Init /\ autoplayEnabled /\ slideCount >= 2

NextAuto ==
    \/ AdvanceTime
    \/ AutoplayFire
    \/ TransitionComplete

SpecAuto ==
    /\ InitAuto
    /\ [][NextAuto]_vars
    /\ WF_vars(AdvanceTime)
    /\ WF_vars(AutoplayFire)
    /\ WF_vars(TransitionComplete)

----------------------------------------------------------------------------
\* Autoplay and the viewport alone: the carousel scrolls in and out of view
\* and nobody clicks or types.

InitPause == Init /\ autoplayEnabled /\ slideCount >= 1

NextPause ==
    \/ AdvanceTime
    \/ AutoplayFire
    \/ TransitionComplete
    \/ OnEnter
    \/ OnEnterBack
    \/ OnLeave
    \/ OnLeaveBack

SpecPause == InitPause /\ [][NextPause]_vars

----------------------------------------------------------------------------
\* Properties.

NavOps == {"next", "prev", "ArrowRight", "ArrowLeft"}

\* A step of one of the handlers that call goTo on a manual request.
ManualNavigation == ClickNext \/ ClickPrev \/ KeyDown

\* The slides that carry the active marker.
ActiveSlides(f) == {i \in DOMAIN f : f[i]}

\* The controller's delayed call is live, running and at full duration.
FreshFullTimer(live, id) ==
    \E c \in live : c.id = id /\ c.remaining = autoplayDuration /\ ~c.paused

\* C1: a goTo made while isAnimating is true (by a button or an arrow key,
\* the callers the code has) changes neither activeIndex nor isAnimating,
\* asks the animator for no timeline and leaves the timeline in flight, and
\* so its target, as it was.
C1_GoToWhileAnimatingIsNoOp ==
    [][(isAnimating /\ ManualNavigation)
         => UNCHANGED <<activeIndex, isAnimating, timelines, slideActive>>]_vars

\* A request for another slide than the one in flight has just been dropped.
C1_Witness ==
    /\ lastEvent.op \in NavOps
    /\ ~lastEvent.accepted
    /\ isAnimating
    /\ Len(timelines) = 1
    /\ lastEvent.target # activeIndex
    /\ lastEvent.target # timelines[1].incoming

\* C2: under every interleaving at most one transition is in flight, and
\* isAnimating is true exactly while one is; a transition therefore starts
\* only after the previous completion callback, and callbacks run in the
\* order the transitions were started.
C2_AtMostOneTransition ==
    /\ Len(timelines) <= 1
    /\ isAnimating <=> (timelines # << >>)

\* The autoplay call came due during a transition.
C2_Witness ==
    /\ lastEvent.op = "tickBlocked"
    /\ isAnimating
    /\ Len(timelines) = 1

\* C3: when the completion callback of a transition runs, activeIndex becomes
\* the target given to goTo, isAnimating becomes false, the former active
\* slide is unmarked and the target is the one slide marked active.
C3_CompletionSettles ==
    [][TransitionComplete =>
         /\ activeIndex' = Head(timelines).incoming
         /\ ~isAnimating'
         /\ ~slideActive'[activeIndex]
         /\ ActiveSlides(slideActive') = {Head(timelines).incoming}]_vars

\* A completion callback has just run.
C3_Witness ==
    /\ lastEvent.op = "complete"
    /\ activeIndex = lastEvent.target
    /\ ~isAnimating
    /\ slideCount >= 3

\* C4, as claimed: with autoplay enabled the completion callback leaves a
\* fresh autoplay call of full duration.
C4_CompletionReschedules ==
    [][(autoplayEnabled /\ TransitionComplete)
         => FreshFullTimer(delayedCalls', autoplayCall')]_vars

\* C4, amended: the completion callback does not touch the autoplay call;
\* with autoplay enabled it is whoever starts a transition (the autoplay
\* callback right after goTo, a manual handler right before it) that leaves
\* a fresh call of full duration, so the countdown runs from the start of the
\* transition.
C4_RescheduledAtStart ==
    [][/\ TransitionComplete => UNCHANGED <<delayedCalls, autoplayCall>>
       /\ (autoplayEnabled /\ Len(timelines') > Len(timelines))
            => FreshFullTimer(delayedCalls', autoplayCall')]_vars

\* A transition has completed while the countdown started with it was
\* already under way.
C4_Witness ==
    /\ lastEvent.op = "complete"
    /\ autoplayEnabled
    /\ \E c \in delayedCalls :
           c.id = autoplayCall /\ c.remaining < autoplayDuration

\* C5: with autoplay disabled, a request made during a transition is dropped,
\* not queued: isAnimating stays true until the completion callback and is
\* false after it, the callback leaves no timeline behind and makes the
\* target of the first request the active index (1, not 2, after two next()
\* from index 0 of 3 slides), and a transition starts only on a request.
C5_RequestsAreDropped ==
    [][~autoplayEnabled =>
         /\ (isAnimating /\ ~TransitionComplete)
              => (isAnimating' /\ timelines' = timelines
                    /\ activeIndex' = activeIndex)
         /\ TransitionComplete
              => (~isAnimating' /\ timelines' = << >>
                    /\ activeIndex' = Head(timelines).incoming)
         /\ (ClickNext /\ ~isAnimating /\ slideCount = 3 /\ activeIndex = 0)
              => (isAnimating' /\ Len(timelines') = 1
                    /\ timelines'[1].incoming = 1)
         /\ Len(timelines') > Len(timelines) => ManualNavigation]_vars

\* The second next() of the scenario has just been dropped.
C5_Witness ==
    /\ slideCount = 3
    /\ ~autoplayEnabled
    /\ lastEvent.op = "next"
    /\ ~lastEvent.accepted
    /\ isAnimating
    /\ activeIndex = 0
    /\ Len(timelines) = 1
    /\ timelines[1].incoming = 1

\* C6: after as many next() calls as there are slides, each made once the
\* previous transition has completed, activeIndex is back at its starting
\* value and every index has been the active one exactly once.
C6_CyclicClosure ==
    (nextCalls = slideCount /\ ~isAnimating) =>
        /\ activeIndex = startIndex
        /\ Len(visited) = slideCount
        /\ {visited[k] : k \in 1 .. Len(visited)} = Slides(slideCount)

\* A full round from a start other than 0 has been made.
C6_Witness ==
    /\ slideCount >= 3
    /\ startIndex = 1
    /\ nextCalls = slideCount
    /\ ~isAnimating
    /\ Len(visited) = slideCount

\* C7: prev(), by button or ArrowLeft, asks goTo for the index before
\* activeIndex, and for the last index when activeIndex is 0; the target is
\* always an index of the carousel, and with no transition in flight and at
\* least two slides the transition to it starts.
C7_PrevTarget ==
    [][(ClickPrev \/ (isInView /\ OnKeyDown("ArrowLeft", FALSE))) =>
         /\ lastEvent'.target =
              (IF activeIndex = 0 THEN slideCount - 1 ELSE activeIndex - 1)
         /\ lastEvent'.target \in Slides(slideCount)
         /\ (~isAnimating /\ slideCount >= 2) =>
              /\ Len(timelines') = 1
              /\ timelines'[1].outgoing = activeIndex
              /\ timelines'[1].incoming = lastEvent'.target]_vars

\* prev() from index 0 of 4 slides has started the transition to index 3.
C7_Witness ==
    /\ slideCount = 4
    /\ lastEvent.op = "prev"
    /\ lastEvent.accepted
    /\ Len(timelines) = 1
    /\ timelines[1].outgoing = 0
    /\ timelines[1].incoming = 3

\* C8: a carousel of one slide never asks the animator for a transition,
\* never sets isAnimating and never leaves index 0, whatever buttons, keys
\* and autoplay do.
C8_SingleSlideInert ==
    slideCount = 1 =>
        /\ activeIndex = 0
        /\ ~isAnimating
        /\ timelines = << >>
        /\ slideActive[0]

\* The autoplay callback has called goTo on a carousel of one slide.
C8_Witness ==
    /\ slideCount = 1
    /\ lastEvent.op = "tick"
    /\ ~lastEvent.accepted

\* The state of a carousel without slides: nothing registered, nothing live.
C9_InertState ==
    slideCount = 0 =>
        /\ ~listening
        /\ delayedCalls = {}
        /\ autoplayCall = NoCall
        /\ timelines = << >>
        /\ ~isAnimating

\* C9: initialising a carousel without slides registers no listener and
\* starts no autoplay call, and no step changes anything afterwards.
C9_ZeroSlidesInert ==
    /\ []C9_InertState
    /\ [][slideCount # 0]_vars

\* The initialisation has run on a carousel without slides.
C9_Witness ==
    /\ slideCount = 0
    /\ lastEvent.op = "init"
    /\ ~listening

\* C10: with autoplay alone, in view, on two slides or more, the active index
\* only ever moves to the next index (mod slideCount), each autoplay callback
\* that finds no transition in flight starts that move and leaves a call of
\* full duration, and every index is the active one again and again.
C10_AutoplayAdvances ==
    /\ [][/\ activeIndex' # activeIndex =>
               activeIndex' = (IF activeIndex = slideCount - 1 THEN 0
                               ELSE activeIndex + 1)
          /\ AutoplayFire => FreshFullTimer(delayedCalls', autoplayCall')
          /\ (AutoplayFire /\ ~isAnimating) =>
               /\ isAnimating'
               /\ timelines'[1].incoming =
                    (IF activeIndex = slideCount - 1 THEN 0
                     ELSE activeIndex + 1)]_vars
    /\ \A i \in Slides(MaxSlides) :
           []<>(i \in Slides(slideCount) => activeIndex = i)

\* Autoplay has started the move from the last slide back to the first.
C10_Witness ==
    /\ autoplayEnabled
    /\ lastEvent.op = "tick"
    /\ lastEvent.accepted
    /\ activeIndex = slideCount - 1
    /\ Len(timelines) = 1
    /\ timelines[1].incoming = 0

\* What lastEvent says after a keydown.
KeyOps == {"keyIgnored", "keyOther", "ArrowRight", "ArrowLeft"}

\* A button click or an arrow key that reaches the navigation code.
ArrowNavigation ==
    \/ ClickNext
    \/ ClickPrev
    \/ \E key \in {"ArrowRight", "ArrowLeft"} :
           isInView /\ OnKeyDown(key, FALSE) /\ UNCHANGED cycleVars

\* The one call left by startAutoplay: new, running, at full duration.
FreshCalls(id) ==
    {[id |-> id, remaining |-> autoplayDuration, paused |-> FALSE, ran |-> 0]}

\* The index after i, and the index before i, in a carousel of n slides.
After(i, n) == IF i = n - 1 THEN 0 ELSE i + 1

Before(i, n) == IF i = 0 THEN n - 1 ELSE i - 1

\* C11: with autoplay enabled, a manual navigation (button or arrow key)
\* leaves exactly one delayed call, new and at full duration, the pending
\* one being cancelled; and the autoplay callback only ever runs for a call
\* that has run for a full autoplayDuration, hence no sooner than that after
\* the navigation.
C11_ManualNavigationResetsTimer ==
    [][/\ (autoplayEnabled /\ ArrowNavigation)
            => delayedCalls' = FreshCalls(autoplayCall')
       /\ AutoplayFire
            => \A c \in delayedCalls :
                   (c.remaining = 0 /\ ~c.paused) => c.ran = autoplayDuration]_vars

\* A manual navigation has just replaced the autoplay call.
C11_Witness ==
    /\ autoplayEnabled
    /\ lastEvent.op = "ArrowLeft"
    /\ lastEvent.accepted
    /\ delayedCalls = FreshCalls(autoplayCall)
    /\ autoplayDuration >= 2

\* C12: leaving the viewport freezes the autoplay call where it is and
\* re-entering lets it go on from there; with nothing else happening, the
\* call has run for exactly one autoplayDuration, counting the time before
\* the leave and the time after the re-entry, when its callback runs.
C12_PauseKeepsCountdown ==
    [][/\ (OnLeave \/ OnLeaveBack)
            => delayedCalls' = {[c EXCEPT !.paused = TRUE] : c \in delayedCalls}
       /\ (OnEnter \/ OnEnterBack)
            => delayedCalls' = {[c EXCEPT !.paused = FALSE] : c \in delayedCalls}
       /\ AdvanceTime
            => \A c \in delayedCalls : c.paused => c \in delayedCalls'
       /\ AutoplayFire
            => \E c \in delayedCalls :
                   /\ c.id = autoplayCall
                   /\ c.remaining = 0
                   /\ c.ran = autoplayDuration]_vars

\* The carousel has come back into view with a countdown that was frozen
\* part of the way.
C12_Witness ==
    /\ lastEvent.op = "enterBack"
    /\ \E c \in delayedCalls :
           /\ c.id = autoplayCall
           /\ ~c.paused
           /\ c.ran > 0
           /\ c.remaining > 0

\* C13: an autoplay callback that finds the carousel out of view or a
\* transition in flight does not call goTo and changes neither activeIndex
\* nor isAnimating; it leaves one new call of full duration.
C13_BlockedTickRetries ==
    [][(AutoplayFire /\ (~isInView \/ isAnimating)) =>
         /\ UNCHANGED <<activeIndex, isAnimating, timelines, slideActive>>
         /\ delayedCalls' = FreshCalls(autoplayCall')]_vars

\* The autoplay callback has run out of view, with no transition in flight.
C13_Witness ==
    /\ lastEvent.op = "tickBlocked"
    /\ ~isInView
    /\ ~isAnimating
    /\ delayedCalls = FreshCalls(autoplayCall)

\* C14: there is never more than one live delayed call, running or paused:
\* it is the one the controller holds, and there is none when the controller
\* holds none or autoplay is disabled.
C14_AtMostOneTimer ==
    /\ Cardinality(delayedCalls) <= 1
    /\ \A c \in delayedCalls : c.id = autoplayCall
    /\ (autoplayCall = NoCall \/ ~autoplayEnabled) => delayedCalls = {}

\* A click out of view has replaced the paused call by a running one.
C14_Witness ==
    /\ lastEvent.op = "next"
    /\ ~isInView
    /\ Cardinality(delayedCalls) = 1
    /\ \E c \in delayedCalls : ~c.paused

\* C15: a keydown out of view, or on an input, a textarea or an editable
\* element, starts no transition, changes neither activeIndex nor
\* isAnimating, leaves the autoplay call alone and does not prevent the
\* default action.
C15_IgnoredKeyChangesNothing ==
    [][lastEvent'.op \in KeyOps =>
         \/ /\ UNCHANGED <<activeIndex, isAnimating, timelines, slideActive,
                            delayedCalls, autoplayCall, isInView>>
            /\ ~lastEvent'.defaultPrevented
         \/ \A key \in Keys, t \in Targets :
                ~ /\ ~isInView \/ t \in {"INPUT", "TEXTAREA", "contentEditable"}
                  /\ OnKeyDown(key, IsTypingTarget(t))]_vars

\* A key has been ignored in view, on a typing element, during a countdown.
C15_Witness ==
    /\ lastEvent.op = "keyIgnored"
    /\ isInView
    /\ \E c \in delayedCalls : c.ran > 0

\* C16: in view and away from typing elements, ArrowRight does what the next
\* button does and ArrowLeft what the prev button does (the same timer
\* reset, the same goTo target), both prevent the default action, and any
\* other key changes nothing and prevents nothing.
C16_ArrowsNavigate ==
    [][lastEvent'.op \in KeyOps => \A key \in Keys :
         (isInView /\ OnKeyDown(key, FALSE)) =>
           IF key \in {"ArrowRight", "ArrowLeft"}
           THEN LET target == IF key = "ArrowRight"
                              THEN After(activeIndex, slideCount)
                              ELSE Before(activeIndex, slideCount)
                IN /\ lastEvent'.target = target
                   /\ lastEvent'.defaultPrevented
                   /\ ResetAutoplay
                   /\ GoTo(target)
                   /\ autoplayEnabled => delayedCalls' = FreshCalls(autoplayCall')
                   /\ (~isAnimating /\ target # activeIndex)
                        => /\ isAnimating'
                           /\ Len(timelines') = 1
                           /\ timelines'[1].incoming = target
                   /\ UNCHANGED <<activeIndex, slideActive, isInView>>
           ELSE /\ UNCHANGED <<activeIndex, isAnimating, timelines, slideActive,
                               delayedCalls, autoplayCall, isInView>>
                /\ ~lastEvent'.defaultPrevented]_vars

\* ArrowRight has started the transition to the next of three slides or more.
C16_Witness ==
    /\ lastEvent.op = "ArrowRight"
    /\ lastEvent.accepted
    /\ lastEvent.defaultPrevented
    /\ slideCount >= 3
    /\ Len(timelines) = 1
    /\ timelines[1].incoming = After(activeIndex, slideCount)

\* C17, as claimed: in reduced-motion mode every transition started takes
\* the fade path, and the text splitter has been invoked for no slide.
C17_NoSplittingInReducedMotion ==
    reduceMotion =>
        /\ (lastEvent.op \in NavOps \cup {"tick"} /\ lastEvent.accepted)
               => timelines[Len(timelines)].fade
        /\ lastEvent.op = "init" => splitInvoked = {}

\* C18, as claimed: once the carousel has been torn down, no listener is
\* registered and no autoplay call is live.
C18_TeardownReleases ==
    lastEvent.op = "teardown" =>
        /\ ~listening
        /\ delayedCalls = {}

\* C19: the initialisation makes the first slide marked active in the page
\* the active one, or slide 0 when none is marked; that slide alone carries
\* the marker, no timeline exists and isAnimating is false.
C19_InitialActiveSlide ==
    (lastEvent.op = "init" /\ slideCount >= 1) =>
        /\ lastEvent.markup = {} => activeIndex = 0
        /\ lastEvent.markup # {} =>
               /\ activeIndex \in lastEvent.markup
               /\ \A j \in lastEvent.markup : activeIndex <= j
        /\ ActiveSlides(slideActive) = {activeIndex}
        /\ ~isAnimating
        /\ timelines = << >>

\* A carousel whose page marks slides 2 and 3 has been initialised.
C19_Witness ==
    /\ lastEvent.op = "init"
    /\ lastEvent.markup = {2, 3}
    /\ activeIndex = 2

\* C20: isAnimating changes only when goTo starts a transition (to true) and
\* in the completion callback, activeIndex only in the completion callback;
\* viewport notifications, the passing of time, blocked autoplay callbacks
\* and ignored keys change neither.
C20_OnlyGoToAndCompletion ==
    [][/\ activeIndex' # activeIndex => TransitionComplete
       /\ isAnimating' # isAnimating =>
            \/ TransitionComplete
            \/ /\ ArrowNavigation \/ AutoplayFire
               /\ isAnimating'
               /\ Len(timelines') = Len(timelines) + 1
       /\ (OnEnter \/ OnEnterBack \/ OnLeave \/ OnLeaveBack \/ AdvanceTime
             \/ OnMatchMedia)
            => UNCHANGED <<activeIndex, isAnimating>>]_vars

\* The carousel has left the viewport during a transition.
C20_Witness ==
    /\ lastEvent.op = "leave"
    /\ isAnimating
    /\ ~isInView
    /\ Len(timelines) = 1

----------------------------------------------------------------------------
\* C21: in a carousel of N >= 1 slides, activeIndex is one of 0 .. N-1 in
\* every reachable state, and so is every target handed to goTo by a button,
\* a key or the autoplay callback, and both ends of every transition.
C21_IndexInRange ==
    slideCount >= 1 =>
      /\ activeIndex \in Slides(slideCount)
      /\ lastEvent.op \in NavOps \cup {"tick"} =>
           lastEvent.target \in Slides(slideCount)
      /\ \A k \in 1 .. Len(timelines) :
           /\ timelines[k].outgoing \in Slides(slideCount)
           /\ timelines[k].incoming \in Slides(slideCount)

\* The left arrow has wrapped from the first slide to the last of three or
\* more.
C21_Witness ==
    /\ slideCount >= 3
    /\ lastEvent.op = "ArrowLeft"
    /\ activeIndex = 0
    /\ lastEvent.target = slideCount - 1
    /\ lastEvent.accepted

----------------------------------------------------------------------------
\* The autoplay period: parseInt(getAttribute("data-autoplay-duration"), 10)
\* || 4000.  An attribute value is a sequence of characters; numbers are
\* JavaScript numbers, of which only the integers and NaN occur here.

\* Bound of the model: the length of the attribute values tried.
MaxAttrLen == 3

DefaultDuration == 4000

Digits == {"0", "1", "2", "3", "4", "5", "6", "7", "8", "9"}

\* The characters the attribute values tried are made of.
Chars == {"0", "1", "4", " ", "-", "+", "x", "."}

\* An attribute the element carries, with value s.
Attr(s) == [present |-> TRUE, value |-> s]

AttrValues ==
    {Missing} \cup
    {Attr(s) : s \in UNION {[1 .. k -> Chars] : k \in 0 .. MaxAttrLen}}

Num(v) == [nan |-> FALSE, value |-> v]

NaN == [nan |-> TRUE, value |-> 0]

\* AttrToString of the argument of parseInt: null becomes "null".
AttrToString(a) == IF a.present THEN a.value ELSE <<"n", "u", "l", "l">>

\* parseInt skips leading white space.
RECURSIVE TrimStart(_)
TrimStart(s) ==
    IF s # << >> /\ Head(s) = " " THEN TrimStart(Tail(s)) ELSE s

DigitValue(c) ==
    CASE c = "0" -> 0 [] c = "1" -> 1 [] c = "2" -> 2 [] c = "3" -> 3
      [] c = "4" -> 4 [] c = "5" -> 5 [] c = "6" -> 6 [] c = "7" -> 7
      [] c = "8" -> 8 [] c = "9" -> 9

\* The longest prefix of s made of decimal digits.
RECURSIVE LeadingDigits(_)
LeadingDigits(s) ==
    IF s # << >> /\ Head(s) \in Digits
    THEN <<Head(s)>> \o LeadingDigits(Tail(s))
    ELSE << >>

\* The integer a digit string denotes, read from the left.
RECURSIVE MathInt(_, _)
MathInt(z, acc) ==
    IF z = << >> THEN acc
    ELSE MathInt(Tail(z), 10 * acc + DigitValue(Head(z)))

\* parseInt(a, 10)
ParseInt(a) ==
    LET trimmed == TrimStart(AttrToString(a))
        signed == trimmed # << >> /\ Head(trimmed) \in {"-", "+"}
        sign == IF signed /\ Head(trimmed) = "-" THEN 0 - 1 ELSE 1
        z == LeadingDigits(IF signed THEN Tail(trimmed) ELSE trimmed)
    IN IF z = << >> THEN NaN ELSE Num(sign * MathInt(z, 0))

\* ToBoolean of a number: NaN and 0 are false.
ToBoolean(x) == ~x.nan /\ x.value # 0

\* The period with ?? in place of ||: parseInt's result is never replaced.
AutoplayDurationOfNullish(a) == ParseInt(a)

\* parseInt(a, 10) || 4000
AutoplayDurationOf(a) ==
    IF ToBoolean(ParseInt(a)) THEN ParseInt(a) ELSE Num(DefaultDuration)

\* The initialisation reads the attribute and computes the period.
ReadAutoplayDuration ==
    /\ periodMs = << >>
    /\ periodMs' = <<AutoplayDurationOf(durationAttr)>>
    /\ UNCHANGED <<durationAttr, tabs, gsapWait, carouselVars>>

\* A page without carousel items, on which the attribute has any of the
\* values tried.
CarouselAbsent == CarouselInit /\ slideCount = 0

InitParse ==
    /\ CarouselAbsent
    /\ durationAttr \in AttrValues
    /\ periodMs = << >>
    /\ tabs = NoTabs
    /\ gsapWait = WaitDone

NextParse == ReadAutoplayDuration

SpecParse == InitParse /\ [][NextParse]_vars

\* s begins with a number: a digit preceded by nothing but white space and
\* at most one sign right before it.  s is a non-empty string of digits.
BeginsWithNumber(s) ==
    \E k \in 1 .. Len(s) :
      /\ s[k] \in Digits
      /\ \/ \A j \in 1 .. (k - 1) : s[j] = " "
         \/ /\ k >= 2
            /\ s[k - 1] \in {"-", "+"}
            /\ \A j \in 1 .. (k - 2) : s[j] = " "

AllDigits(s) == Len(s) >= 1 /\ \A k \in 1 .. Len(s) : s[k] \in Digits

\* The integer a digit string denotes, read from the right.
RECURSIVE DecimalValue(_)
DecimalValue(s) ==
    IF s = << >> THEN 0
    ELSE DigitValue(s[Len(s)]) + 10 * DecimalValue(SubSeq(s, 1, Len(s) - 1))

----------------------------------------------------------------------------
\* C23: in every reachable state of a carousel with slides, a transition in
\* flight included, exactly one slide carries the active marker and it is
\* slides[activeIndex]; the marker moves only in the completion callback, to
\* the target of the transition and together with activeIndex.
C23_OneActiveMarker ==
    /\ [](slideCount >= 1 => ActiveSlides(slideActive) = {activeIndex})
    /\ [][slideActive' # slideActive =>
            /\ TransitionComplete
            /\ activeIndex' = timelines[1].incoming
            /\ activeIndex' # activeIndex
            /\ ActiveSlides(slideActive') = {timelines[1].incoming}]_vars

\* Time passes during a transition: the marker is still on the outgoing
\* slide.
C23_Witness ==
    /\ lastEvent.op = "time"
    /\ isAnimating
    /\ Len(timelines) = 1
    /\ timelines[1].outgoing = activeIndex
    /\ slideActive[activeIndex]
    /\ ~slideActive[timelines[1].incoming]

\* C25: with autoplay enabled, a button click or an arrow key received
\* during a transition starts no transition but still replaces the autoplay
\* call by a new one at full duration; and the autoplay callback only runs
\* on a call that has counted its whole duration, so requests repeated at
\* shorter intervals keep it from ever running.
C25_RequestsPostponeAutoplay ==
    /\ [][(autoplayEnabled /\ isAnimating /\ lastEvent'.op \in NavOps
             /\ ArrowNavigation) =>
            /\ delayedCalls' = FreshCalls(autoplayCall')
            /\ UNCHANGED <<timelines, isAnimating, activeIndex>>]_vars
    /\ [][(lastEvent'.op \in {"tick", "tickBlocked"} /\ AutoplayFire) =>
            \E c \in delayedCalls :
              /\ c.id = autoplayCall
              /\ c.ran = autoplayDuration
              /\ c.remaining = 0]_vars

\* The right arrow has been pressed during a transition: no second
\* transition, a new call at full duration.
C25_Witness ==
    /\ autoplayEnabled
    /\ isAnimating
    /\ lastEvent.op = "ArrowRight"
    /\ ~lastEvent.accepted
    /\ Len(timelines) = 1
    /\ delayedCalls = FreshCalls(autoplayCall)

\* C26: while isInView is false neither the autoplay callback nor a key
\* event starts a transition, also when a button click out of view has put
\* a running call in the place of the paused one; a transition that starts
\* out of view was started by a click on the prev or next button.
C26_OutOfViewOnlyButtons ==
    [][~isInView =>
         /\ (lastEvent'.op \in KeyOps \cup {"tick", "tickBlocked"}
               /\ (AutoplayFire \/ KeyDown))
              => UNCHANGED <<timelines, isAnimating, activeIndex>>
         /\ timelines' # timelines /\ Len(timelines') > Len(timelines)
              => ClickNext \/ ClickPrev]_vars

\* Out of view, a click on the prev button has started a transition and
\* left a running call.
C26_Witness ==
    /\ ~isInView
    /\ autoplayEnabled
    /\ lastEvent.op = "prev"
    /\ lastEvent.accepted
    /\ isAnimating
    /\ \E c \in delayedCalls : c.id = autoplayCall /\ ~c.paused

\* C27: with autoplay disabled there is no delayed call in any reachable
\* state, and a transition (the only thing that changes activeIndex) is
\* only started by a button click or an arrow key.
C27_NoTimerWhenDisabled ==
    /\ [](~autoplayEnabled => delayedCalls = {} /\ autoplayCall = NoCall)
    /\ [][~autoplayEnabled =>
            /\ activeIndex' # activeIndex => TransitionComplete
            /\ timelines' # timelines /\ Len(timelines') > Len(timelines)
                 => ArrowNavigation]_vars

\* With autoplay disabled the carousel has come back into view after a
\* manual navigation: resumeAutoplay has created no call.
C27_Witness ==
    /\ ~autoplayEnabled
    /\ slideCount >= 2
    /\ lastEvent.op = "enterBack"
    /\ activeIndex # startIndex
    /\ delayedCalls = {}
    /\ autoplayCall = NoCall

----------------------------------------------------------------------------
\* The carousel in use, with both buttons and at least two slides, and an
\* animation library that plays every timeline to its end: a timeline that
\* has not completed eventually runs its onComplete.
InitLive == Init /\ slideCount >= 2 /\ btnNext /\ btnPrev

SpecLive == InitLive /\ [][Next]_vars /\ WF_vars(TransitionComplete)

\* C24: given that every timeline runs its onComplete, every state with
\* isAnimating true is followed by one with isAnimating false, with reduced
\* motion and without; and once isAnimating is false a button click or an
\* arrow key towards another slide is accepted and starts a transition.
C24_NeverLocked ==
    /\ \A f \in BOOLEAN : (isAnimating /\ reduceMotion = f) ~> ~isAnimating
    /\ [][(~isAnimating /\ slideCount >= 2 /\ lastEvent'.op \in NavOps
             /\ ArrowNavigation) =>
            /\ lastEvent'.accepted
            /\ isAnimating'
            /\ Len(timelines') = 1]_vars

\* After an earlier transition has completed, a click on the next button
\* has started a fade.
C24_Witness ==
    /\ lastEvent.op = "next"
    /\ lastEvent.accepted
    /\ activeIndex # startIndex
    /\ isAnimating
    /\ Len(timelines) = 1
    /\ timelines[1].fade

----------------------------------------------------------------------------
\* The tab system of src/unnamed/part_001 (initTabSystem) on one wrapper.
\* A wrapper has as many visual items as content items; tab i is the pair
\* contentItems[i], visualItems[i].

\* Bound of the model: the number of tabs of the wrapper.
MaxTabs == 4

\* progressBarTween.kill(): the held tween, if it is still live, is removed.
KillTween(t) ==
    [t EXCEPT !.tweens = {w \in t.tweens : w.id # t.progressBarTween}]

\* An id for a tween the library does not hold yet.
FreshTweenId(live) ==
    CHOOSE i \in 1 .. (Cardinality(live) + 1) : \A w \in live : w.id # i

\* startProgressBar(index)
StartProgressBar(t, index) ==
    LET killed == KillTween(t)
        id == FreshTweenId(killed.tweens)
    IN IF index \notin t.bars THEN killed
       ELSE [killed EXCEPT !.tweens = @ \cup {[id |-> id, index |-> index]},
                           !.progressBarTween = id]

\* switchTab that leaves the progress tween running.
SwitchTabNoKill(t, index) ==
    IF t.isAnimating \/ index = t.activeContent THEN t
    ELSE [t EXCEPT
            !.isAnimating = TRUE,
            !.timelines = Append(@, [outgoing |-> t.activeContent,
                                     incoming |-> index]),
            !.classActive = (@ \cup {index}) \ {t.activeContent}]

\* switchTab(index): the synchronous part.
SwitchTab(t, index) ==
    IF t.isAnimating \/ index = t.activeContent THEN t
    ELSE [KillTween(t) EXCEPT
            !.isAnimating = TRUE,
            !.timelines = Append(@, [outgoing |-> t.activeContent,
                                     incoming |-> index]),
            !.classActive = (@ \cup {index}) \ {t.activeContent}]

\* The onComplete of the timeline switchTab creates.
TabOnComplete(t, tl) ==
    LET done == [t EXCEPT !.activeContent = tl.incoming,
                          !.activeVisual = tl.incoming,
                          !.isAnimating = FALSE]
    IN IF t.autoplay THEN StartProgressBar(done, tl.incoming) ELSE done

\* The state after initTabSystem() has run on one wrapper of n tabs.
TabsAfterInit(n, ap, bars) ==
    IF n = 0 THEN NoTabs
    ELSE [SwitchTab([NoTabs EXCEPT !.count = n, !.autoplay = ap,
                                   !.bars = bars], 0)
            EXCEPT !.last = "init", !.target = 0]

\* The click handler of content item i.
TabClick ==
    /\ \E i \in 0 .. (tabs.count - 1) :
         tabs' = IF i = tabs.activeContent
                 THEN [tabs EXCEPT !.last = "clickActive", !.target = i]
                 ELSE [SwitchTab(tabs, i) EXCEPT !.last = "click",
                                                 !.target = i]
    /\ UNCHANGED <<durationAttr, periodMs, gsapWait, carouselVars>>

\* The oldest tab timeline finishes and runs its onComplete.
TabTransitionComplete ==
    /\ tabs.timelines # << >>
    /\ tabs' = [TabOnComplete([tabs EXCEPT !.timelines = Tail(@)],
                              Head(tabs.timelines))
                  EXCEPT !.last = "complete",
                         !.target = Head(tabs.timelines).incoming]
    /\ UNCHANGED <<durationAttr, periodMs, gsapWait, carouselVars>>

\* A live progress tween reaches its end and runs its onComplete.
ProgressComplete ==
    /\ \E w \in tabs.tweens :
         LET ended == [tabs EXCEPT !.tweens = @ \ {w}]
             next == JsMod(w.index + 1, tabs.count)
         IN tabs' = [(IF ended.isAnimating THEN ended
                      ELSE SwitchTab(ended, next))
                       EXCEPT !.last = "progress", !.target = next]
    /\ UNCHANGED <<durationAttr, periodMs, gsapWait, carouselVars>>

InitTabs ==
    /\ CarouselAbsent
    /\ durationAttr = Missing
    /\ periodMs = << >>
    /\ gsapWait = WaitDone
    /\ \E n \in 0 .. MaxTabs, ap \in BOOLEAN :
         \E bars \in SUBSET (0 .. (n - 1)) :
           tabs = TabsAfterInit(n, ap, bars)

NextTabs ==
    \/ TabClick
    \/ TabTransitionComplete
    \/ ProgressComplete

SpecTabs == InitTabs /\ [][NextTabs]_vars

\* C28: in the tab system switchTab changes nothing while a tab transition
\* is in flight or when it is asked for the active tab; at most one tab
\* timeline and at most one progress tween are live, no progress tween is
\* live while isAnimating is true, and a completion makes the incoming
\* content and visual the active pair.
C28_TabSwitchExclusive ==
    /\ [](/\ Len(tabs.timelines) <= 1
          /\ Cardinality(tabs.tweens) <= 1
          /\ tabs.isAnimating <=> Len(tabs.timelines) = 1
          /\ tabs.isAnimating => tabs.tweens = {})
    /\ [][/\ (/\ tabs'.last \in {"click", "progress"}
              /\ tabs.isAnimating \/ tabs'.target = tabs.activeContent)
               => /\ tabs'.timelines = tabs.timelines
                  /\ tabs'.isAnimating = tabs.isAnimating
                  /\ tabs'.activeContent = tabs.activeContent
                  /\ tabs'.activeVisual = tabs.activeVisual
                  /\ tabs'.classActive = tabs.classActive
                  /\ tabs'.progressBarTween = tabs.progressBarTween
                  /\ tabs'.tweens \subseteq tabs.tweens
          /\ tabs'.last = "complete"
               => /\ tabs'.activeContent = tabs.timelines[1].incoming
                  /\ tabs'.activeVisual = tabs.timelines[1].incoming
                  /\ ~tabs'.isAnimating]_vars

\* A click on another tab during a tab transition has been dropped.
C28_Witness ==
    /\ tabs.last = "click"
    /\ tabs.isAnimating
    /\ Len(tabs.timelines) = 1
    /\ tabs.target # tabs.timelines[1].incoming
    /\ tabs.activeContent # NoTab

----------------------------------------------------------------------------
\* The tab system with autoplay and nobody clicking.  The library's ticker
\* keeps running, so tab timelines and progress tweens reach their end.
InitTabsAuto == InitTabs /\ tabs.autoplay /\ tabs.count >= 2

NextTabsAuto ==
    \/ TabTransitionComplete
    \/ ProgressComplete

SpecTabsAuto ==
    /\ InitTabsAuto
    /\ [][NextTabsAuto]_vars
    /\ WF_vars(TabTransitionComplete)
    /\ WF_vars(ProgressComplete)

\* C29: with autoplay, two or more tabs and no clicks, the first active tab
\* is tab 0, every later change of the active tab goes to the next tab
\* modulo the number of tabs, and every tab is active again and again.
C29_TabsCycle ==
    /\ [][tabs'.activeContent # tabs.activeContent =>
            tabs'.activeContent =
              IF tabs.activeContent = NoTab THEN 0
              ELSE (tabs.activeContent + 1) % tabs.count]_vars
    /\ \A i \in 0 .. (MaxTabs - 1) :
         []<>(i >= tabs.count \/ tabs.activeContent = i)

----------------------------------------------------------------------------
\* waitForGsap(cb, tries = 80) of src/main.js, called once by init().  In
\* gsapWait, loaded is the set of libraries present on window, pending says
\* that a check is due (the first call, or a setTimeout not yet run), checks
\* counts the checks made, elapsed is the time in ms at which the due check
\* runs, callbacks counts the calls of cb and seen is what was loaded when
\* cb ran.

\* init() has called nothing yet; any of the libraries may already be there.
WaitStart(loaded) ==
    [tries |-> DefaultTries, loaded |-> loaded, checks |-> 0, elapsed |-> 0,
     callbacks |-> 0, warned |-> FALSE, pending |-> TRUE, seen |-> {}]

\* A library's script finishes loading.
LoadLibrary ==
    /\ \E l \in Libraries \ gsapWait.loaded :
         gsapWait' = [gsapWait EXCEPT !.loaded = @ \cup {l}]
    /\ UNCHANGED <<durationAttr, periodMs, tabs, carouselVars>>

\* One check that gives up only when tries is below 0.
WaitCheckLate ==
    /\ gsapWait.pending
    /\ gsapWait' =
         IF gsapWait.loaded = Libraries
         THEN [gsapWait EXCEPT !.checks = @ + 1, !.callbacks = @ + 1,
                               !.seen = gsapWait.loaded, !.pending = FALSE]
         ELSE IF gsapWait.tries < 0
         THEN [gsapWait EXCEPT !.checks = @ + 1, !.warned = TRUE,
                               !.pending = FALSE]
         ELSE [gsapWait EXCEPT !.checks = @ + 1, !.tries = @ - 1,
                               !.elapsed = @ + PollMs]
    /\ UNCHANGED <<durationAttr, periodMs, tabs, carouselVars>>

\* One run of waitForGsap(cb, tries): the callback, the warning, or a
\* setTimeout of waitForGsap(cb, tries - 1).
WaitCheck ==
    /\ gsapWait.pending
    /\ gsapWait' =
         IF gsapWait.loaded = Libraries
         THEN [gsapWait EXCEPT !.checks = @ + 1, !.callbacks = @ + 1,
                               !.seen = gsapWait.loaded, !.pending = FALSE]
         ELSE IF gsapWait.tries <= 0
         THEN [gsapWait EXCEPT !.checks = @ + 1, !.warned = TRUE,
                               !.pending = FALSE]
         ELSE [gsapWait EXCEPT !.checks = @ + 1, !.tries = @ - 1,
                               !.elapsed = @ + PollMs]
    /\ UNCHANGED <<durationAttr, periodMs, tabs, carouselVars>>

InitWait ==
    /\ CarouselAbsent
    /\ durationAttr = Missing
    /\ periodMs = << >>
    /\ tabs = NoTabs
    /\ \E loaded \in SUBSET Libraries : gsapWait = WaitStart(loaded)

NextWait ==
    \/ LoadLibrary
    \/ WaitCheck

SpecWait == InitWait /\ [][NextWait]_vars

\* C30: waitForGsap calls its callback at most once, at a check that finds
\* all three libraries; the checks are 50 ms apart; it stops without calling
\* back only by warning, and that happens at the 81st check, 4000 ms after
\* the first, with tries at 0 and no further check scheduled.
C30_BoundedPolling ==
    /\ gsapWait.callbacks <= 1
    /\ gsapWait.callbacks = 1 =>
         /\ gsapWait.seen = {"gsap", "ScrollTrigger", "SplitText"}
         /\ ~gsapWait.pending
         /\ ~gsapWait.warned
    /\ gsapWait.checks <= 81
    /\ gsapWait.pending =>
         /\ gsapWait.checks = 80 - gsapWait.tries
         /\ gsapWait.elapsed = 50 * gsapWait.checks
    /\ gsapWait.warned =>
         /\ gsapWait.checks = 81
         /\ gsapWait.tries = 0
         /\ gsapWait.elapsed = 4000
         /\ gsapWait.callbacks = 0
         /\ ~gsapWait.pending
    /\ (~gsapWait.pending /\ gsapWait.callbacks = 0) => gsapWait.warned

\* Two of the libraries loaded, the third never did: waitForGsap has warned.
C30_Witness ==
    /\ gsapWait.warned
    /\ gsapWait.checks = 81
    /\ gsapWait.callbacks = 0
    /\ gsapWait.loaded = {"gsap", "ScrollTrigger"}

====
